---- MODULE Spec2Model ----
(***************************************************************************)
(* A model of file_parser.py: the five format extractors (PDFParser,       *)
(* DocxParser, PPTParser, CSVParser, TSVParser) and the FileParser menu.   *)
(*                                                                         *)
(* Python values are modelled as follows.  A str is a tuple of one-        *)
(* character strings, so that split, startswith, endswith and + are        *)
(* computed rather than assumed.  A dict is a record (or a function on its *)
(* key set for the CSV/TSV result, whose keys are data).  A list is a      *)
(* sequence.  The third-party decoders (PyPDF2, tabula, python-pptx,       *)
(* python-docx, pandas) are the environment: what they hand to the         *)
(* extractors is drawn from small sets in Init.                            *)
(***************************************************************************)
EXTENDS Integers, Sequences, FiniteSets, TLC

VARIABLES
    cls,          \* class of the extractor instance under study: "pdf", "ppt", "docx"
    source,       \* what the decoder gave __init__: reader.pages / presentation.slides / doc
    chunks,       \* self.chunks of that instance
    returns,      \* history: one entry per parse_file call, the value returned (or raised)
    log,          \* history: one entry per self.chunks.append(...) executed
    csv_file,     \* text of the comma-delimited file
    tsv_file,     \* text of the tab-delimited file
    csv_dataframe, \* CSVParser.dataframe
    tsv_dataframe, \* TSVParser.dataframe
    csv_chunks,   \* CSVParser.chunks
    tsv_chunks,   \* TSVParser.chunks
    csv_returned, \* history: CSVParser.parse_file has returned
    tsv_returned, \* history: TSVParser.parse_file has returned
    file_path,    \* FileParser.file_path
    file_type,    \* FileParser.file_type
    running,      \* FileParser.run is still in its loop
    select_ret,   \* history: what the last select_file returned ("none" before any)
    last_choice,  \* history: the last menu choice handled
    extractor     \* history: the extractor class the last menu choice constructed and ran

extract_vars == <<cls, source, chunks, returns, log>>
tabular_vars == <<csv_file, tsv_file, csv_dataframe, tsv_dataframe,
                  csv_chunks, tsv_chunks, csv_returned, tsv_returned>>
menu_vars == <<file_path, file_type, running, select_ret, last_choice, extractor>>
vars == <<extract_vars, tabular_vars, menu_vars>>

----------------------------------------------------------------------------
(* Bounds *)

MaxPages == 2      \* pages of a PDF
MaxShapes == 2     \* shapes of a presentation, over all its slides
MaxSlides == 2     \* slides of a presentation
MaxRows == 2       \* rows of a PPTX table
MaxParas == 2      \* paragraphs of a DOCX document
MaxCalls == 2      \* parse_file calls on one instance
MaxCols == 2       \* columns of a CSV/TSV grid
MaxDataRows == 2   \* data rows of a CSV/TSV grid

SeqUpTo(S, n) == UNION {[1..k -> S] : k \in 0..n}

----------------------------------------------------------------------------
(* Python built-ins *)

NL == "\n"

\* str.startswith(prefix)
StartsWith(s, prefix) ==
    /\ Len(s) >= Len(prefix)
    /\ SubSeq(s, 1, Len(prefix)) = prefix

\* str.endswith(suffix)
EndsWith(s, suffix) ==
    /\ Len(s) >= Len(suffix)
    /\ SubSeq(s, Len(s) - Len(suffix) + 1, Len(s)) = suffix

\* str.split(sep) for a non-empty sep: cut at each leftmost, non-overlapping
\* occurrence of sep; the pieces may be empty and there is always at least one.
RECURSIVE SplitRec(_, _, _)
SplitRec(rest, sep, cur) ==
    IF Len(rest) >= Len(sep) /\ SubSeq(rest, 1, Len(sep)) = sep
    THEN <<cur>> \o SplitRec(SubSeq(rest, Len(sep) + 1, Len(rest)), sep, <<>>)
    ELSE IF rest = <<>>
         THEN <<cur>>
         ELSE SplitRec(Tail(rest), sep, Append(cur, Head(rest)))

Split(text, sep) == SplitRec(text, sep, <<>>)

\* Stable insertion of c into a sequence already sorted ascending by "order".
RECURSIVE InsertByOrder(_, _)
InsertByOrder(sorted, c) ==
    IF sorted = <<>>
    THEN <<c>>
    ELSE IF sorted[Len(sorted)].order <= c.order
         THEN Append(sorted, c)
         ELSE Append(InsertByOrder(SubSeq(sorted, 1, Len(sorted) - 1), c),
                     sorted[Len(sorted)])

RECURSIVE SortedAsc(_)
SortedAsc(cs) ==
    IF cs = <<>>
    THEN <<>>
    ELSE InsertByOrder(SortedAsc(SubSeq(cs, 1, Len(cs) - 1)), cs[Len(cs)])

Reverse(s) == [i \in 1..Len(s) |-> s[Len(s) + 1 - i]]

\* sorted(..., reverse=True)
SortedByOrderDescending(cs) == Reverse(SortedAsc(Reverse(cs)))

\* sorted(self.chunks, key=lambda x: x["order"]): stable, ascending
SortedByOrder(cs) == SortedAsc(cs)

----------------------------------------------------------------------------
(* The accumulator.  st = [chunks, log, raised]: self.chunks, the history   *)
(* of appends, and whether an exception is propagating.                     *)

\* self.chunks.append({..., "order": len(self.chunks)}) for each proto in turn;
\* a proto is the dict without its final "order" value.
RECURSIVE AppendEach(_, _, _, _, _)
AppendEach(st, protos, call, unit, item) ==
    IF protos = <<>>
    THEN st
    ELSE LET c == [Head(protos) EXCEPT !.order = Len(st.chunks)]
             e == [call |-> call, unit |-> unit, item |-> item, chunk |-> c]
         IN AppendEach([st EXCEPT !.chunks = Append(@, c), !.log = Append(@, e)],
                       Tail(protos), call, unit, item)

----------------------------------------------------------------------------
(* PDFParser *)

\* page.extract_text()
Texts == { <<>>,                          \* no extractable text
           <<"a">>,
           <<"a", NL, NL, "b">>,          \* two paragraphs
           <<"a", NL, "b", NL, NL>> }     \* a single newline does not split; a trailing boundary

DataFrames == { [columns |-> <<"h1", "h2">>, values |-> << <<"1", "2">> >>] }

\* tabula.read_pdf(...) on one page: a list of DataFrames, or an exception
TabulaOutcomes == { [raises |-> TRUE, tables |-> <<>>] }
                  \cup { [raises |-> FALSE, tables |-> t] : t \in SeqUpTo(DataFrames, 1) }

\* page.extract_images()
PageImages == { <<>>, <<"img1">> }

Pages == [text : Texts, tabula : TabulaOutcomes, images : PageImages]

PDFParagraphProtos(page) ==
    LET paragraphs == Split(page.text, <<NL, NL>>)
    IN [i \in 1..Len(paragraphs) |->
            [type |-> "paragraph", text |-> paragraphs[i], order |-> 0]]

PDFTableProtos(page) ==
    [i \in 1..Len(page.tabula.tables) |->
        [type |-> "table",
         headers |-> page.tabula.tables[i].columns,
         data |-> page.tabula.tables[i].values,
         order |-> 0]]

PDFImageProtos(page) ==
    [i \in 1..Len(page.images) |->
        [type |-> "image", image |-> page.images[i], order |-> 0]]

\* The body of "for page in self.reader.pages" for page number p.
PDFPage(st, page, call, p) ==
    LET s1 == AppendEach(st, PDFParagraphProtos(page), call, p, 0)
    IN IF page.tabula.raises
       THEN [s1 EXCEPT !.raised = TRUE]
       ELSE LET s2 == AppendEach(s1, PDFTableProtos(page), call, p, 0)
            IN AppendEach(s2, PDFImageProtos(page), call, p, 0)

RECURSIVE PDFPages(_, _, _, _)
PDFPages(st, pages, call, p) ==
    IF p > Len(pages) \/ st.raised
    THEN st
    ELSE PDFPages(PDFPage(st, pages[p], call, p), pages, call, p + 1)

\* PDFParser.parse_file on an instance whose self.chunks is st.chunks
PDFParser_parse_file(st, pages, call) ==
    LET s == PDFPages(st, pages, call, 1)
    IN IF s.raised THEN s ELSE [s EXCEPT !.chunks = SortedByOrder(@)]

----------------------------------------------------------------------------
(* PPTParser *)

TableCode == 19      \* the shape_type compared at "elif shape.shape_type == 19"
PictureCode == 13    \* the shape_type compared at "elif shape.shape_type == 13"

\* table.rows of a table with n rows and m columns; rows[r][c] is the text of
\* the cell.  A DrawingML table is a grid: every row has one cell per column.
Grid(n, m) == [r \in 1..n |-> [c \in 1..m |-> <<ToString(r), ToString(c)>>]]

NoTable == <<>>
Tables == { Grid(n, m) : n \in 1..MaxRows, m \in {1, 2} }
TextFrames == { << <<"t">> >>, << <<"t">>, <<>>, <<"u">> >> }  \* text_frame.paragraphs

TextShapes ==
    { [has_text_frame |-> TRUE, shape_type |-> 1,
       text_frame |-> tf, table |-> NoTable, image |-> "none"] : tf \in TextFrames }
    \cup { [has_text_frame |-> TRUE, shape_type |-> TableCode,
            text_frame |-> << <<"t">> >>, table |-> Grid(1, 1), image |-> "none"],
           [has_text_frame |-> TRUE, shape_type |-> PictureCode,
            text_frame |-> << <<"t">> >>, table |-> NoTable, image |-> "pic"] }

TableShapes ==
    { [has_text_frame |-> FALSE, shape_type |-> TableCode,
       text_frame |-> <<>>, table |-> t, image |-> "none"] : t \in Tables }

OtherShapes ==
    { [has_text_frame |-> FALSE, shape_type |-> PictureCode,
       text_frame |-> <<>>, table |-> NoTable, image |-> "pic"],
      [has_text_frame |-> FALSE, shape_type |-> 6,
       text_frame |-> <<>>, table |-> NoTable, image |-> "none"] }

Shapes == TextShapes \cup TableShapes \cup OtherShapes

\* text = ''; for paragraph in text_frame.paragraphs: text += paragraph.text + '\n'
RECURSIVE JoinParagraphs(_, _)
JoinParagraphs(text, paragraphs) ==
    IF paragraphs = <<>>
    THEN text
    ELSE JoinParagraphs(text \o Head(paragraphs) \o <<NL>>, Tail(paragraphs))

\* [cell.text for cell in table.rows[0].cells]
PPTTableHeaders(rows) == rows[1]

\* [[cell.text for cell in row.cells] for row in table.rows[0:]]
PPTTableDataWithHeader(rows) == rows

\* [[cell.text for cell in row.cells] for row in table.rows[1:]]
PPTTableData(rows) == Tail(rows)

PPTParagraphProto(shape) ==
    [type |-> "paragraph", text |-> JoinParagraphs(<<>>, shape.text_frame), order |-> 0]

PPTTableProto(shape) ==
    [type |-> "table", headers |-> PPTTableHeaders(shape.table),
     data |-> PPTTableData(shape.table), order |-> 0]

PPTImageProto(shape) ==
    [type |-> "image", image |-> shape.image, order |-> 0]

\* The same chain with the shape_type tests ahead of the text-frame test.
PPTShapeProtosTypeFirst(shape) ==
    IF shape.shape_type = TableCode THEN <<PPTTableProto(shape)>>
    ELSE IF shape.shape_type = PictureCode THEN <<PPTImageProto(shape)>>
    ELSE IF shape.has_text_frame THEN <<PPTParagraphProto(shape)>>
    ELSE <<>>

\* The if / elif / elif chain of the loop body: what one shape appends.
PPTShapeProtos(shape) ==
    IF shape.has_text_frame THEN <<PPTParagraphProto(shape)>>
    ELSE IF shape.shape_type = TableCode THEN <<PPTTableProto(shape)>>
    ELSE IF shape.shape_type = PictureCode THEN <<PPTImageProto(shape)>>
    ELSE <<>>

RECURSIVE PPTShapes(_, _, _, _, _)
PPTShapes(st, shapes, call, s, j) ==
    IF j > Len(shapes)
    THEN st
    ELSE PPTShapes(AppendEach(st, PPTShapeProtos(shapes[j]), call, s, j),
                   shapes, call, s, j + 1)

RECURSIVE PPTSlides(_, _, _, _)
PPTSlides(st, slides, call, s) ==
    IF s > Len(slides)
    THEN st
    ELSE PPTSlides(PPTShapes(st, slides[s], call, s, 1), slides, call, s + 1)

\* PPTParser.parse_file on an instance whose self.chunks is st.chunks
PPTParser_parse_file(st, slides, call) ==
    LET s == PPTSlides(st, slides, call, 1)
    IN [s EXCEPT !.chunks = SortedByOrder(@)]

\* presentation.slides: up to MaxSlides slides holding up to MaxShapes shapes
\* in all; slide i holds the shapes that "at" places on it.
SlidesOf(flat, n, at) ==
    [i \in 1..n |->
        LET idx == {k \in 1..Len(flat) : at[k] = i}
            first == IF idx = {} THEN 1 ELSE CHOOSE k \in idx : \A l \in idx : k <= l
        IN [j \in 1..Cardinality(idx) |-> flat[first + j - 1]]]

Presentations ==
    { SlidesOf(flat, n, at) :
        flat \in SeqUpTo(Shapes, MaxShapes),
        n \in 0..MaxSlides,
        at \in {f \in [1..MaxShapes -> 1..MaxSlides] :
                    \A k \in 1..MaxShapes : \A l \in 1..MaxShapes : k <= l => f[k] <= f[l]} }

----------------------------------------------------------------------------
(* DocxParser *)

ListBullet == <<"L", "i", "s", "t", " ", "B", "u", "l", "l", "e", "t">>
ListNumber == <<"L", "i", "s", "t", " ", "N", "u", "m", "b", "e", "r">>
Normal == <<"N", "o", "r", "m", "a", "l">>
Heading1 == <<"H", "e", "a", "d", "i", "n", "g", " ", "1">>
LowerList == <<"l", "i", "s", "t">>      \* a custom style; not prefixed "List"
StyleNames == {ListBullet, ListNumber, Normal, Heading1, LowerList}

DocxParagraphs == [text : {<<"p">>}, style_name : StyleNames]
DocxTables == { Grid(2, 2) }

Documents ==
    [paragraphs : SeqUpTo(DocxParagraphs, MaxParas),
     tables : SeqUpTo(DocxTables, 1),
     inline_shapes : SeqUpTo({"blob"}, 1)]

\* A chunk that is not a dict: a bare str (para.text) or a list of lists
\* (table_data).  py names the Python type, value the object.
Bare(py, value) == [py |-> py, value |-> value]

\* What the first loop appends for one paragraph.
DocxParagraphChunk(para) ==
    IF StartsWith(para.style_name, <<"L", "i", "s", "t">>)
    THEN [type |-> "list", data |-> para.text]
    ELSE Bare("str", para.text)

\* self.chunks.append(x) for each x in turn
RECURSIVE AppendPlain(_, _, _, _, _)
AppendPlain(st, items, call, unit, i) ==
    IF i > Len(items)
    THEN st
    ELSE LET e == [call |-> call, unit |-> unit, item |-> i, chunk |-> items[i]]
         IN AppendPlain([st EXCEPT !.chunks = Append(@, items[i]),
                                   !.log = Append(@, e)],
                        items, call, unit, i + 1)

\* DocxParser.parse_file: all paragraphs, then all tables, then all images
DocxParser_parse_file(st, doc, call) ==
    LET s1 == AppendPlain(st, [i \in 1..Len(doc.paragraphs) |->
                                  DocxParagraphChunk(doc.paragraphs[i])],
                          call, "paragraphs", 1)
        s2 == AppendPlain(s1, [i \in 1..Len(doc.tables) |->
                                  Bare("list", doc.tables[i])],
                          call, "tables", 1)
    IN AppendPlain(s2, [i \in 1..Len(doc.inline_shapes) |->
                           [type |-> "image", data |-> doc.inline_shapes[i]]],
                   call, "inline_shapes", 1)

----------------------------------------------------------------------------
(* One extractor instance, and parse_file called on it up to MaxCalls times *)

TabularIdle ==
    /\ csv_file = <<>> /\ tsv_file = <<>>
    /\ csv_dataframe = [columns |-> <<>>, rows |-> <<>>]
    /\ tsv_dataframe = [columns |-> <<>>, rows |-> <<>>]
    /\ csv_chunks = <<>> /\ tsv_chunks = <<>>
    /\ csv_returned = FALSE /\ tsv_returned = FALSE

MenuIdle ==
    /\ file_path = <<>> /\ file_type = <<>>
    /\ running = FALSE
    /\ select_ret = "none" /\ last_choice = "none" /\ extractor = "none"

\* PDFParser(file_path), PPTParser(file_path) or DocxParser(file_path)
Init ==
    /\ \/ cls = "pdf" /\ source \in SeqUpTo(Pages, MaxPages)
       \/ cls = "ppt" /\ source \in Presentations
       \/ cls = "docx" /\ source \in Documents
    /\ chunks = <<>>
    /\ returns = <<>>
    /\ log = <<>>
    /\ TabularIdle
    /\ MenuIdle

Self == [chunks |-> chunks, log |-> log, raised |-> FALSE]

\* The effect of one call on the instance and on the histories.
Called(r) ==
    /\ chunks' = r.chunks
    /\ log' = r.log
    /\ returns' = Append(returns, [raised |-> r.raised,
                                   value |-> IF r.raised THEN <<>> ELSE r.chunks])
    /\ UNCHANGED <<cls, source, tabular_vars, menu_vars>>

PDFParseFile ==
    /\ cls = "pdf"
    /\ Len(returns) < MaxCalls
    /\ Called(PDFParser_parse_file(Self, source, Len(returns) + 1))

PPTParseFile ==
    /\ cls = "ppt"
    /\ Len(returns) < MaxCalls
    /\ Called(PPTParser_parse_file(Self, source, Len(returns) + 1))

DocxParseFile ==
    /\ cls = "docx"
    /\ Len(returns) < MaxCalls
    /\ Called(DocxParser_parse_file(Self, source, Len(returns) + 1))

Next == PDFParseFile \/ PPTParseFile \/ DocxParseFile

Spec == Init /\ [][Next]_vars

----------------------------------------------------------------------------
(* Reading the histories *)

Calls == 1..Len(returns)
Returned(k) == ~returns[k].raised

\* The chunks appended during call k for unit u (a page, a slide, a DOCX
\* pass) and item j (a shape of the slide, a paragraph; 0 on a PDF page).
Appended(k, u, j) ==
    LET Hit(e) == e.call = k /\ e.unit = u /\ e.item = j
        hits == SelectSeq(log, Hit)
    IN [i \in 1..Len(hits) |-> hits[i].chunk]

OfType(cs, t) ==
    LET Is(c) == "type" \in DOMAIN c /\ c.type = t
    IN SelectSeq(cs, Is)

Contains(value, c) == \E i \in 1..Len(value) : value[i] = c
ContainsAll(value, cs) == \A i \in 1..Len(cs) : Contains(value, cs[i])

----------------------------------------------------------------------------
(* Claims about PDFParser, PPTParser and DocxParser *)

\* C1: every sequence returned by PDFParser.parse_file or PPTParser.parse_file
\* has strictly increasing order keys: result[i].order < result[i+1].order for
\* every adjacent pair (so the keys are pairwise distinct).
C1_OrderStrictlyIncreasing ==
    cls \in {"pdf", "ppt"} =>
        \A k \in Calls :
            Returned(k) =>
                \A i \in 1..(Len(returns[k].value) - 1) :
                    returns[k].value[i].order < returns[k].value[i + 1].order

\* A PDF whose second call returned paragraphs, a table and an image.
C1_Witness ==
    /\ cls = "pdf"
    /\ Len(returns) = 2
    /\ Returned(2)
    /\ OfType(returns[2].value, "paragraph") # <<>>
    /\ OfType(returns[2].value, "table") # <<>>
    /\ OfType(returns[2].value, "image") # <<>>

\* C2: when table detection raises on one page, PDFParser.parse_file still
\* returns, and the returned sequence holds the paragraph and image chunks of
\* every page (each non-empty blank-line-separated piece of its text, each of
\* its images) and the table chunks of every page but the failing one.
RaisingPages == {p \in 1..Len(source) : source[p].tabula.raises}

C2_DegradeNotAbort ==
    (cls = "pdf" /\ Cardinality(RaisingPages) = 1) =>
        \A k \in Calls :
            /\ Returned(k)
            /\ \A p \in 1..Len(source) :
                LET made == Appended(k, p, 0)
                    pieces == Split(source[p].text, <<NL, NL>>)
                IN /\ ContainsAll(returns[k].value, made)
                   /\ \A i \in 1..Len(pieces) :
                        pieces[i] # <<>> =>
                            \E j \in 1..Len(made) :
                                made[j].type = "paragraph" /\ made[j].text = pieces[i]
                   /\ Len(OfType(made, "image")) = Len(source[p].images)
                   /\ Len(OfType(made, "table")) =
                        IF p \in RaisingPages THEN 0 ELSE Len(source[p].tabula.tables)

\* C7: a page whose extracted text is empty contributes zero paragraph chunks,
\* and traversal continues with that page's tables and images and with the
\* following pages (stated for documents on which table detection never raises).
C7_EmptyPageNoParagraph ==
    (cls = "pdf" /\ \A p \in 1..Len(source) : ~source[p].tabula.raises) =>
        \A k \in Calls : \A p \in 1..Len(source) :
            source[p].text = <<>> =>
                /\ OfType(Appended(k, p, 0), "paragraph") = <<>>
                /\ Len(OfType(Appended(k, p, 0), "table")) = Len(source[p].tabula.tables)
                /\ Len(OfType(Appended(k, p, 0), "image")) = Len(source[p].images)
                /\ \A q \in (p + 1)..Len(source) :
                    Len(OfType(Appended(k, q, 0), "image")) = Len(source[q].images)

\* C9: a second parse_file call on the same PDFParser, PPTParser or DocxParser
\* instance returns a sequence with the same length and the same chunks as the
\* first call returned: nothing is carried over from the earlier call.
C9_SecondCallSameResult ==
    (Len(returns) >= 2 /\ Returned(1) /\ Returned(2)) =>
        /\ Len(returns[2].value) = Len(returns[1].value)
        /\ \A i \in 1..Len(returns[1].value) : returns[2].value[i] = returns[1].value[i]

\* The positions <<slide, shape>> of a presentation in traversal order.
RECURSIVE PositionsFrom(_, _)
PositionsFrom(slides, s) ==
    IF s > Len(slides)
    THEN <<>>
    ELSE [j \in 1..Len(slides[s]) |-> <<s, j>>] \o PositionsFrom(slides, s + 1)

ShapeAt(pos) == source[pos[1]][pos[2]]

Yields(shape) ==
    shape.has_text_frame \/ shape.shape_type \in {TableCode, PictureCode}

\* The kind the first matching rule gives a chunk-yielding shape.
FirstMatch(shape) ==
    IF shape.has_text_frame THEN "paragraph"
    ELSE IF shape.shape_type = TableCode THEN "table"
    ELSE "image"

\* C3: PPTParser.parse_file tries text-frame, table code, picture code in that
\* order and the first match wins: a shape with a text frame whose shape_type
\* is the table code or the picture code produces exactly one chunk, of type
\* paragraph, and no table or image chunk; without a text frame the table code
\* gives a table chunk and the picture code an image chunk.
C3_TextFrameFirst ==
    cls = "ppt" =>
        \A k \in Calls : \A s \in 1..Len(source) : \A j \in 1..Len(source[s]) :
            LET made == Appended(k, s, j)
            IN Yields(source[s][j]) =>
                /\ Len(made) = 1
                /\ made[1].type = FirstMatch(source[s][j])
                /\ Contains(returns[k].value, made[1])

\* A returned run over a shape that has a text frame and the table code, and
\* over one that has a text frame and the picture code.
C3_Witness ==
    /\ cls = "ppt"
    /\ Len(returns) >= 1
    /\ \E s \in 1..Len(source) : \E j \in 1..Len(source[s]) :
        /\ source[s][j].has_text_frame
        /\ source[s][j].shape_type = TableCode
        /\ Appended(1, s, j) # <<>>
    /\ \E s \in 1..Len(source) : \E j \in 1..Len(source[s]) :
        /\ source[s][j].has_text_frame
        /\ source[s][j].shape_type = PictureCode

C6_DocxKindTag ==
    cls = "docx" =>
        \A k \in Calls : \A i \in 1..Len(source.paragraphs) :
            LET made == Appended(k, "paragraphs", i)
            IN /\ Len(made) = 1
               /\ "type" \in DOMAIN made[1]
               /\ made[1].type =
                    IF StartsWith(source.paragraphs[i].style_name, <<"L", "i", "s", "t">>)
                    THEN "list_item"
                    ELSE "paragraph"

\* C10: PPTParser.parse_file returns chunks slide-major, shape-order-minor:
\* a shape yields exactly one chunk when it has a text frame or its shape_type
\* is 19 or 13 and none otherwise, and the k-th chunk-yielding shape in
\* traversal order is at position k with order key k (counting from 0).
C10_SlideMajor ==
    cls = "ppt" =>
        \A k \in Calls :
            LET pos == PositionsFrom(source, 1)
                IsYielding(q) == Yields(ShapeAt(q))
                y == SelectSeq(pos, IsYielding)
                value == returns[k].value
            IN /\ \A n \in 1..Len(pos) :
                    Len(Appended(k, pos[n][1], pos[n][2])) =
                        IF Yields(ShapeAt(pos[n])) THEN 1 ELSE 0
               /\ \A n \in 1..Len(y) :
                    /\ n <= Len(value)
                    /\ value[n] = Appended(k, y[n][1], y[n][2])[1]
                    /\ value[n].order = n - 1

----------------------------------------------------------------------------
(* CSVParser and TSVParser *)

Comma == ","
Tab == "\t"

\* The dict keys written as literals in the code; a key is a str like any
\* column name, so a column may carry the same name.
DataframeKey == <<"d", "a", "t", "a", "f", "r", "a", "m", "e">>
HeadersKey == <<"h", "e", "a", "d", "e", "r", "s">>

ColumnNames == { <<"x">>, <<"y">>, HeadersKey }
CellValues == { <<"1">>, <<"2">> }

\* The data both files hold: distinct column names, rows of one cell per column.
\* No cell holds a delimiter, a quote or a newline.
GridsOf(m) ==
    { [headers |-> h, rows |-> r] :
        h \in {f \in [1..m -> ColumnNames] : \A a \in 1..m : \A b \in 1..m : f[a] = f[b] => a = b},
        r \in SeqUpTo([1..m -> CellValues], IF m = 0 THEN 0 ELSE MaxDataRows) }

Grids == UNION { GridsOf(m) : m \in 0..MaxCols }

RECURSIVE Join(_, _)
Join(fields, delimiter) ==
    IF fields = <<>> THEN <<>>
    ELSE IF Len(fields) = 1 THEN fields[1]
    ELSE fields[1] \o <<delimiter>> \o Join(Tail(fields), delimiter)

RECURSIVE WriteLines(_, _)
WriteLines(lines, delimiter) ==
    IF lines = <<>> THEN <<>>
    ELSE Join(Head(lines), delimiter) \o <<NL>> \o WriteLines(Tail(lines), delimiter)

\* The delimited text of a grid: the header line, then one line per row.
WriteDelimited(grid, delimiter) ==
    IF grid.headers = <<>> THEN <<>>
    ELSE WriteLines(<<grid.headers>> \o grid.rows, delimiter)

\* pd.read_csv(file_path, delimiter=...): the first line is the header, blank
\* lines are skipped.  A text with no line gives a frame without columns.
read_csv(text, delimiter) ==
    LET NonBlank(l) == l # <<>>
        lines == SelectSeq(Split(text, <<NL>>), NonBlank)
    IN IF lines = <<>>
       THEN [columns |-> <<>>, rows |-> <<>>]
       ELSE [columns |-> Split(lines[1], <<delimiter>>),
             rows |-> [r \in 1..(Len(lines) - 1) |-> Split(lines[r + 1], <<delimiter>>)]]

\* self.dataframe[i].tolist()
ColumnToList(df, i) ==
    LET c == CHOOSE c \in 1..Len(df.columns) : df.columns[c] = i
    IN [r \in 1..Len(df.rows) |-> df.rows[r][c]]

EmptyDict == <<>>

\* d[k] = v
SetItem(d, k, v) == [x \in DOMAIN d \cup {k} |-> IF x = k THEN v ELSE d[x]]

\* CSVParser.parse_file: the column loop, then the two assignments after it
RECURSIVE CSVColumns(_, _, _)
CSVColumns(d, df, c) ==
    IF c > Len(df.columns)
    THEN d
    ELSE CSVColumns(SetItem(d, df.columns[c], Bare("list", ColumnToList(df, df.columns[c]))),
                    df, c + 1)

CSVParser_parse_file(d, df) ==
    LET d1 == CSVColumns(d, df, 1)
        d2 == SetItem(d1, DataframeKey, Bare("DataFrame", df))
    IN SetItem(d2, HeadersKey, Bare("Index", df.columns))

\* TSVParser.parse_file: the two assignments sit inside the column loop
RECURSIVE TSVColumns(_, _, _)
TSVColumns(d, df, c) ==
    IF c > Len(df.columns)
    THEN d
    ELSE LET d1 == SetItem(d, df.columns[c], Bare("list", ColumnToList(df, df.columns[c])))
             d2 == SetItem(d1, DataframeKey, Bare("DataFrame", df))
             d3 == SetItem(d2, HeadersKey, Bare("Index", df.columns))
         IN TSVColumns(d3, df, c + 1)

TSVParser_parse_file(d, df) == TSVColumns(d, df, 1)

ExtractIdle ==
    /\ cls = "none" /\ source = <<>> /\ chunks = <<>> /\ returns = <<>> /\ log = <<>>

\* CSVParser(file_path) and TSVParser(file_path) on a comma-delimited and a
\* tab-delimited file of the same data
InitTabular ==
    /\ \E grid \in Grids :
        /\ csv_file = WriteDelimited(grid, Comma)
        /\ tsv_file = WriteDelimited(grid, Tab)
    /\ csv_dataframe = read_csv(csv_file, Comma)
    /\ tsv_dataframe = read_csv(tsv_file, Tab)
    /\ csv_chunks = EmptyDict /\ tsv_chunks = EmptyDict
    /\ csv_returned = FALSE /\ tsv_returned = FALSE
    /\ ExtractIdle
    /\ MenuIdle

CSVParseFile ==
    /\ csv_chunks' = CSVParser_parse_file(csv_chunks, csv_dataframe)
    /\ csv_returned' = TRUE
    /\ UNCHANGED <<csv_file, tsv_file, csv_dataframe, tsv_dataframe, tsv_chunks,
                   tsv_returned, extract_vars, menu_vars>>

TSVParseFile ==
    /\ tsv_chunks' = TSVParser_parse_file(tsv_chunks, tsv_dataframe)
    /\ tsv_returned' = TRUE
    /\ UNCHANGED <<csv_file, tsv_file, csv_dataframe, tsv_dataframe, csv_chunks,
                   csv_returned, extract_vars, menu_vars>>

NextTabular == CSVParseFile \/ TSVParseFile

SpecTabular == InitTabular /\ [][NextTabular]_vars

----------------------------------------------------------------------------
(* FileParser *)

Csv == <<"c", "s", "v">>
Tsv == <<"t", "s", "v">>
Pdf == <<"p", "d", "f">>
Ppt == <<"p", "p", "t">>
Pptx == <<"p", "p", "t", "x">>
Docx == <<"d", "o", "c", "x">>
Xlsx == <<"x", "l", "s", "x">>

Dot(ext) == <<".">> \o ext

\* What the user may type at "Enter the file path: "
EnteredPaths ==
    { <<>>, <<"a">> \o Csv, Dot(Csv), <<"a">> \o Dot(Csv) \o Dot(Tsv) }
    \cup { <<"a">> \o Dot(e) : e \in {Csv, Tsv, Pdf, Ppt, Pptx, Docx, Xlsx} }

\* What the user may type at "Enter the file type ...: "
EnteredTypes == { <<>>, Csv, Tsv, Pdf, Ppt, Pptx, Docx, Xlsx }

\* ["csv", "tsv", "pdf", "ppt", "docx"]
SupportedTypes == { Csv, Tsv, Pdf, Ppt, Docx }

\* FileParser.select_file after the two input() calls: its return value
FileParser_select_file(type) ==
    IF type \notin SupportedTypes THEN "False" ELSE "True"

\* The same chain with the tsv branch testing the extension of the csv branch.
FileParser_parse_file_CopiedExtension(path, type) ==
    IF path = <<>> \/ type = <<>> THEN "none"
    ELSE IF type = Csv THEN (IF ~EndsWith(path, Dot(Csv)) THEN "none" ELSE "CSVParser")
    ELSE IF type = Tsv THEN (IF ~EndsWith(path, Dot(Csv)) THEN "none" ELSE "TSVParser")
    ELSE IF type = Pdf THEN (IF ~EndsWith(path, Dot(Pdf)) THEN "none" ELSE "PDFParser")
    ELSE IF type = Ppt THEN (IF ~EndsWith(path, Dot(Pptx)) THEN "none" ELSE "PPTParser")
    ELSE IF type = Docx THEN (IF ~EndsWith(path, Dot(Docx)) THEN "none" ELSE "DocxParser")
    ELSE "none"

\* FileParser.parse_file: the extractor class it constructs and runs, "none"
\* when it returns or falls through without constructing one.
FileParser_parse_file(path, type) ==
    IF path = <<>> \/ type = <<>> THEN "none"
    ELSE IF type = Csv THEN (IF ~EndsWith(path, Dot(Csv)) THEN "none" ELSE "CSVParser")
    ELSE IF type = Tsv THEN (IF ~EndsWith(path, Dot(Tsv)) THEN "none" ELSE "TSVParser")
    ELSE IF type = Pdf THEN (IF ~EndsWith(path, Dot(Pdf)) THEN "none" ELSE "PDFParser")
    ELSE IF type = Ppt THEN (IF ~EndsWith(path, Dot(Pptx)) THEN "none" ELSE "PPTParser")
    ELSE IF type = Docx THEN (IF ~EndsWith(path, Dot(Docx)) THEN "none" ELSE "DocxParser")
    ELSE "none"

\* FileParser() followed by run()
InitMenu ==
    /\ file_path = <<>>
    /\ file_type = <<>>
    /\ running = TRUE
    /\ select_ret = "none"
    /\ last_choice = "none"
    /\ extractor = "none"
    /\ ExtractIdle
    /\ TabularIdle

\* choice == "1"
SelectFile ==
    /\ running
    /\ \E path \in EnteredPaths : \E type \in EnteredTypes :
        /\ file_path' = path
        /\ file_type' = type
        /\ select_ret' = FileParser_select_file(type)
    /\ last_choice' = "1"
    /\ extractor' = "none"
    /\ UNCHANGED <<running, extract_vars, tabular_vars>>

\* choice == "2".  An extractor that is constructed may raise (a missing or
\* unreadable file); nothing in run catches it, so the loop ends.
ParseFile ==
    /\ running
    /\ extractor' = FileParser_parse_file(file_path, file_type)
    /\ last_choice' = "2"
    /\ \/ running' = TRUE
       \/ extractor' # "none" /\ running' = FALSE
    /\ UNCHANGED <<file_path, file_type, select_ret, extract_vars, tabular_vars>>

\* choice == "3"
Exit ==
    /\ running
    /\ running' = FALSE
    /\ last_choice' = "3"
    /\ extractor' = "none"
    /\ UNCHANGED <<file_path, file_type, select_ret, extract_vars, tabular_vars>>

\* any other choice
InvalidChoice ==
    /\ running
    /\ last_choice' = "invalid"
    /\ extractor' = "none"
    /\ UNCHANGED <<file_path, file_type, running, select_ret, extract_vars, tabular_vars>>

NextMenu == SelectFile \/ ParseFile \/ Exit \/ InvalidChoice

SpecMenu == InitMenu /\ [][NextMenu]_vars

\* The extension and the extractor the claim pairs with each supported type.
ClaimedExtension(type) ==
    IF type = Csv THEN Dot(Csv)
    ELSE IF type = Tsv THEN Dot(Tsv)
    ELSE IF type = Pdf THEN Dot(Pdf)
    ELSE IF type = Ppt THEN Dot(Pptx)
    ELSE Dot(Docx)

StoredSelectionValid ==
    /\ file_type \in {Csv, Tsv, Pdf, Ppt, Docx}
    /\ EndsWith(file_path, ClaimedExtension(file_type))

\* C8: over any sequence of menu choices, an extractor is constructed and run
\* only when the stored file type is one of csv, tsv, pdf, ppt, docx and the
\* stored path ends with that type's extension; after a selection rejected as
\* unsupported, with an extension mismatch, or before any selection, Parse
\* File attempts no extraction.
C8_ExtractOnlyWhenValid ==
    /\ extractor # "none" => (last_choice = "2" /\ StoredSelectionValid)
    /\ (last_choice = "2" /\ (select_ret \in {"none", "False"} \/ ~StoredSelectionValid))
            => extractor = "none"

\* Parse File constructed and ran PPTParser on a stored path ending ".pptx"
\* with the stored type "ppt".
C8_Witness ==
    /\ last_choice = "2"
    /\ extractor = "PPTParser"
    /\ select_ret = "True"
    /\ file_path = <<"a">> \o Dot(Pptx)

====
